---- MODULE Spec2Model ----
(***************************************************************************)
(* A model of the stateful cores of the TravelAgency site:                 *)
(*   - the in-memory rate limiter of src/lib/errorHandler.ts               *)
(*     (RateLimitStore, createRateLimiter), with getClientIP and           *)
(*     getRateLimitConfig,                                                 *)
(*   - the session authority of src/lib/auth.ts (createSession,            *)
(*     verifySession, verifyCredentials) together with the middleware of   *)
(*     src/middleware.ts that gates the admin pages and the admin API, and *)
(*   - the login route of src/app/api/auth/login/route.ts, whose requests  *)
(*     interleave at the awaits of the handler.                            *)
(* Time is the wall clock in milliseconds, as Date.now() returns it.       *)
(***************************************************************************)
EXTENDS Integers, Sequences, FiniteSets, TLC

VARIABLES
    now,        \* Date.now(), in milliseconds
    store,      \* RateLimitStore.store : Map<string, RateLimitEntry>
    timerOn,    \* RateLimitStore.cleanupInterval is armed
    last,       \* the limiter call that has just returned: arguments, result, entry before and after
    calls,      \* per key, the calls made since the key last had no live entry
    issued,     \* the tokens createSession has returned so far, each with its identity and time
    cookie,     \* the client's admin-session cookie: <<>> or <<token>>
    resp,       \* the request just made and the response the middleware gave it: <<>> or <<r>>
    loggedOut,  \* the issued tokens, not yet past their exp, whose cookie a response has
                \* told the client to delete
    profile,    \* the RateLimitConfig of the one limiter under observation
    recent,     \* per key, the times of the calls that limiter admitted in the last windowMs
    inflight,   \* the login requests in flight, each at one of the handler's awaits
    verifs,     \* per key and window, the verifyCredentials calls made by requests counted in it
    admits,     \* per key, the calls admitted since the key last had no live entry
    loginResp,  \* the response the login handler has just returned: <<>> or <<r>>
    fn,         \* the pure function under test
    args,       \* its arguments
    ret         \* what it returned: <<>> before the call, <<r>> after it

vars == <<now, store, timerOn, last, calls, issued, cookie, resp, loggedOut,
          profile, recent, inflight, verifs, admits, loginResp, fn, args, ret>>

limiterVars == <<store, timerOn, last, calls>>
sessionVars == <<issued, cookie, resp, loggedOut>>
burstVars == <<profile, recent>>
loginVars == <<inflight, verifs, admits, loginResp>>
pureVars == <<fn, args, ret>>

-----------------------------------------------------------------------------
(* Bounds of the model                                                     *)

MaxTicks == 6          \* the limiter's clock runs to MaxTicks half seconds
MaxRequestsBound == 2  \* profiles have maxRequests in 1..MaxRequestsBound
MaxCalls == 4          \* at most MaxCalls calls are counted into one entry
MaxTokens == 1         \* createSession is called at most MaxTokens times
MaxHeaderLen == 3      \* an x-forwarded-for value has at most MaxHeaderLen pieces
MaxInFlight == 2       \* at most MaxInFlight login requests are suspended at once
MaxLoginCalls == 6     \* at most MaxLoginCalls login requests are counted into one entry

-----------------------------------------------------------------------------
(* The rate limiter: src/lib/errorHandler.ts                               *)

Keys == {"login:1.2.3.4", "login:unknown"}

\* RateLimitConfig: the two fields the limiter reads
Configs == [windowMs : {1000, 1500}, maxRequests : 1..MaxRequestsBound]

StepMs == {500, 1000}

Max(a, b) == IF a >= b THEN a ELSE b

\* Math.ceil(a / b) for b > 0
Ceil(a, b) == -((-a) \div b)

\* Map.set(key, entry)
MapSet(m, k, e) == [x \in (DOMAIN m) \cup {k} |-> IF x = k THEN e ELSE m[x]]

\* Map.delete for a set of keys
MapDelete(m, ks) == [x \in (DOMAIN m) \ ks |-> m[x]]

\* IsFresh as it would be if an entry were never replaced once made
IsFresh_NeverExpires(m, k, t) == k \notin DOMAIN m

\* RateLimitStore.increment: the condition under which a new entry is made
IsFresh(m, k, t) == IF k \in DOMAIN m THEN m[k].resetTime < t ELSE TRUE

\* IncrementEntry as it would be if a call made while a request of the key is suspended
\* wrote back the count it found
IncrementEntry_LostUpdate(m, k, windowMs, t) ==
    IF IsFresh(m, k, t)
    THEN [count |-> 1, firstRequest |-> t, resetTime |-> t + windowMs]
    ELSE IF \E r \in inflight : r.key = k
    THEN m[k]
    ELSE [m[k] EXCEPT !.count = @ + 1]

\* IncrementEntry as it would be if every counted call started the window anew
IncrementEntry_SlidingWindow(m, k, windowMs, t) ==
    IF IsFresh(m, k, t)
    THEN [count |-> 1, firstRequest |-> t, resetTime |-> t + windowMs]
    ELSE [m[k] EXCEPT !.count = @ + 1, !.resetTime = t + windowMs]

\* IncrementEntry as it would be if each limiter counted into entries of its own profile
IncrementEntry_PerProfile(m, k, windowMs, t) ==
    IF IsFresh(m, k, t)
    THEN [count |-> 1, firstRequest |-> t, resetTime |-> t + windowMs]
    ELSE IF m[k].resetTime - m[k].firstRequest # windowMs
    THEN [count |-> 1, firstRequest |-> t, resetTime |-> t + windowMs]
    ELSE [m[k] EXCEPT !.count = @ + 1]

\* RateLimitStore.increment: the entry it returns
IncrementEntry(m, k, windowMs, t) ==
    IF IsFresh(m, k, t)
    THEN [count |-> 1, firstRequest |-> t, resetTime |-> t + windowMs]
    ELSE [m[k] EXCEPT !.count = @ + 1]

\* Increment as it would be if the store kept one counter for all keys
Increment_OneCounter(m, k, windowMs, t) ==
    LET e == IncrementEntry(m, k, windowMs, t)
    IN  [x \in (DOMAIN m) \cup {k} |-> IF x = k THEN e ELSE [m[x] EXCEPT !.count = e.count]]

\* RateLimitStore.increment: the store it leaves
Increment(m, k, windowMs, t) == MapSet(m, k, IncrementEntry(m, k, windowMs, t))

\* LimiterResult as it would be with count < maxRequests for allowed
LimiterResult_StrictLess(cfg, entry, t) ==
    LET retryAfter == Ceil(entry.resetTime - t, 1000)
    IN  [allowed    |-> entry.count < cfg.maxRequests,
         remaining  |-> Max(0, cfg.maxRequests - entry.count),
         resetTime  |-> entry.resetTime,
         retryAfter |-> IF retryAfter > 0 THEN retryAfter ELSE 0]

\* LimiterResult as it would be without the Math.max(0, ...) around remaining
LimiterResult_NoClamp(cfg, entry, t) ==
    LET retryAfter == Ceil(entry.resetTime - t, 1000)
    IN  [allowed    |-> entry.count <= cfg.maxRequests,
         remaining  |-> cfg.maxRequests - entry.count,
         resetTime  |-> entry.resetTime,
         retryAfter |-> IF retryAfter > 0 THEN retryAfter ELSE 0]

\* LimiterResult as it would be with Math.floor for Math.ceil in retryAfter
LimiterResult_FloorRetry(cfg, entry, t) ==
    LET retryAfter == (entry.resetTime - t) \div 1000
    IN  [allowed    |-> entry.count <= cfg.maxRequests,
         remaining  |-> Max(0, cfg.maxRequests - entry.count),
         resetTime  |-> entry.resetTime,
         retryAfter |-> IF retryAfter > 0 THEN retryAfter ELSE 0]

\* LimiterResult as it would be if every window admitted one call beyond maxRequests
LimiterResult_OneOver(cfg, entry, t) ==
    LET retryAfter == Ceil(entry.resetTime - t, 1000)
    IN  [allowed    |-> entry.count <= cfg.maxRequests + 1,
         remaining  |-> Max(0, cfg.maxRequests - entry.count),
         resetTime  |-> entry.resetTime,
         retryAfter |-> IF retryAfter > 0 THEN retryAfter ELSE 0]

\* the function createRateLimiter returns: its result for the entry increment returned
LimiterResult(cfg, entry, t) ==
    LET retryAfter == Ceil(entry.resetTime - t, 1000)
    IN  [allowed    |-> entry.count <= cfg.maxRequests,
         remaining  |-> Max(0, cfg.maxRequests - entry.count),
         resetTime  |-> entry.resetTime,
         retryAfter |-> IF retryAfter > 0 THEN retryAfter ELSE 0]

\* ExpiredKeys as it would be with resetTime <= now for resetTime < now
ExpiredKeys_Inclusive(m, t) == {k \in DOMAIN m : m[k].resetTime <= t}

\* RateLimitStore.cleanup: the keys it deletes
ExpiredKeys(m, t) == {k \in DOMAIN m : m[k].resetTime < t}

NoResult == [allowed |-> FALSE, remaining |-> 0, resetTime |-> 0, retryAfter |-> 0]
NoConfig == [windowMs |-> 0, maxRequests |-> 0]

\* last: the limiter call that has just returned (no call has, after any other step)
NoCall == [called |-> FALSE, key |-> "", cfg |-> NoConfig,
           res |-> NoResult, before |-> <<>>, after |-> <<>>]

\* the key has an entry whose window has not elapsed at time t
Live(m, k, t) == IF k \in DOMAIN m THEN t <= m[k].resetTime ELSE FALSE

\* one call limiter(identifier) of a limiter made by createRateLimiter(cfg)
Limiter(k, cfg) ==
    /\ IF Live(store, k, now) THEN calls[k] < MaxCalls ELSE TRUE
    /\ LET entry == IncrementEntry(store, k, cfg.windowMs, now)
           res   == LimiterResult(cfg, entry, now)
       IN  /\ store' = Increment(store, k, cfg.windowMs, now)
           /\ last' = [called |-> TRUE, key |-> k, cfg |-> cfg, res |-> res,
                       before |-> IF k \in DOMAIN store THEN <<store[k]>> ELSE <<>>,
                       after  |-> <<entry>>]
    /\ calls' = [calls EXCEPT ![k] = IF Live(store, k, now) THEN @ + 1 ELSE 1]
    /\ UNCHANGED <<now, timerOn, sessionVars, burstVars, loginVars, pureVars>>

\* the cleanup pass as it would be if destroy() left the timer armed
Cleanup_TimerNotCleared ==
    /\ store' = MapDelete(store, ExpiredKeys(store, now))
    /\ last' = NoCall
    /\ UNCHANGED <<now, timerOn, calls, sessionVars, burstVars, loginVars, pureVars>>

\* the setInterval callback of the RateLimitStore constructor: one cleanup pass.
\* The pass may fall at any instant while the timer is armed.
Cleanup ==
    /\ timerOn
    /\ store' = MapDelete(store, ExpiredKeys(store, now))
    /\ last' = NoCall
    /\ UNCHANGED <<now, timerOn, calls, sessionVars, burstVars, loginVars, pureVars>>

\* cleanupRateLimiter: store.destroy()
Destroy ==
    /\ timerOn' = FALSE
    /\ store' = MapDelete(store, DOMAIN store)
    /\ last' = NoCall
    /\ UNCHANGED <<now, calls, sessionVars, burstVars, loginVars, pureVars>>

\* the clock advances
Tick(d) ==
    /\ now + d <= MaxTicks * 500
    /\ now' = now + d
    /\ last' = NoCall
    /\ UNCHANGED <<store, timerOn, calls, sessionVars, burstVars, loginVars, pureVars>>

\* the times of ts that lie in the interval of length windowMs that ends at t
Within(ts, windowMs, t) == SelectSeq(ts, LAMBDA x : t - x <= windowMs)

\* one call limiter(k) of the limiter made by createRateLimiter(profile); recent keeps the
\* times of the calls it admitted for k during the last windowMs
ProfiledCall(k) ==
    /\ IF Live(store, k, now) THEN calls[k] < MaxCalls ELSE TRUE
    /\ LET entry == IncrementEntry(store, k, profile.windowMs, now)
           res   == LimiterResult(profile, entry, now)
           kept  == Within(recent[k], profile.windowMs, now)
       IN  /\ store' = Increment(store, k, profile.windowMs, now)
           /\ last' = [called |-> TRUE, key |-> k, cfg |-> profile, res |-> res,
                       before |-> IF k \in DOMAIN store THEN <<store[k]>> ELSE <<>>,
                       after  |-> <<entry>>]
           /\ recent' = [recent EXCEPT ![k] = IF res.allowed THEN Append(kept, now) ELSE kept]
    /\ calls' = [calls EXCEPT ![k] = IF Live(store, k, now) THEN @ + 1 ELSE 1]
    /\ UNCHANGED <<now, timerOn, profile, sessionVars, loginVars, pureVars>>

-----------------------------------------------------------------------------
(* The session authority: src/lib/auth.ts                                  *)

SESSION_EXPIRATION_HOURS == 2

HourMs == 60 * 60 * 1000
MinuteMs == 60 * 1000

JWT_SECRET == "server-secret"
AttackerSecret == "attacker-secret"

Identities == {"admin@russoluxtours.de", "mallory@example.com"}

\* the instants at which the session model reads the clock: around the time of issue,
\* 1h59m later, and around 2h later
Instants ==
    {base + off : base \in {0, SESSION_EXPIRATION_HOURS * HourMs - MinuteMs},
                  off \in {0, 500}}
    \cup {SESSION_EXPIRATION_HOURS * HourMs + off : off \in {0, 500, 1000}}

\* ToISOString as it would be if the text dropped the milliseconds
ToISOString_NoMillis(ms) == [sec |-> ms \div 1000, ms |-> 0]

\* Date.toISOString(): whole seconds and milliseconds, as the text carries them
ToISOString(ms) == [sec |-> ms \div 1000, ms |-> ms % 1000]

\* new Date(isoString).getTime()
ParseDate(iso) == iso.sec * 1000 + iso.ms

\* jose's epoch(date): Math.floor(date.getTime() / 1000)
Epoch(ms) == ms \div 1000

NoPayload == [username |-> "", expiresAt |-> ToISOString(0), iat |-> 0, exp |-> 0]

\* an HS256 signature: only the holder of the secret can make the one that fits
Sign(secret, alg, payload) == [key |-> secret, alg |-> alg, over |-> payload]

NoSig == Sign("", "", NoPayload)

\* a cookie value that is not a JWS, and the empty cookie value
GarbageToken == [form |-> "garbage", alg |-> "", payload |-> NoPayload, sig |-> NoSig]
EmptyToken == [form |-> "empty", alg |-> "", payload |-> NoPayload, sig |-> NoSig]

\* createSession(username) called at time t. The call is taken to read one clock value:
\* Date.now() for expiresAt and jose's own clock for iat and exp see the same t.
createSession(username, t) ==
    LET expiresAt == t + SESSION_EXPIRATION_HOURS * 60 * 60 * 1000
        payload == [username  |-> username,
                    expiresAt |-> ToISOString(expiresAt),
                    iat       |-> Epoch(t),
                    exp       |-> Epoch(t) + SESSION_EXPIRATION_HOURS * 60 * 60]
    IN  [form |-> "jws", alg |-> "HS256", payload |-> payload,
         sig |-> Sign(JWT_SECRET, "HS256", payload)]

\* jwtVerify as it would be if a token were expired only after its exp second
jwtVerify_ExpStrict(token, secret, t) ==
    IF token.form # "jws" THEN [ok |-> FALSE, error |-> "JWSInvalid", payload |-> NoPayload]
    ELSE IF token.alg # "HS256"
    THEN [ok |-> FALSE, error |-> "JOSEAlgNotAllowed", payload |-> NoPayload]
    ELSE IF token.sig # Sign(secret, token.alg, token.payload)
    THEN [ok |-> FALSE, error |-> "JWSSignatureVerificationFailed", payload |-> NoPayload]
    ELSE IF token.payload.exp < Epoch(t)
    THEN [ok |-> FALSE, error |-> "JWTExpired", payload |-> NoPayload]
    ELSE [ok |-> TRUE, error |-> "", payload |-> token.payload]

\* jwtVerify as it would be if the payload were decoded without checking the signature
jwtVerify_NoSignatureCheck(token, secret, t) ==
    IF token.form # "jws" THEN [ok |-> FALSE, error |-> "JWSInvalid", payload |-> NoPayload]
    ELSE IF token.payload.exp <= Epoch(t)
    THEN [ok |-> FALSE, error |-> "JWTExpired", payload |-> NoPayload]
    ELSE [ok |-> TRUE, error |-> "", payload |-> token.payload]

\* jose's jwtVerify(token, secret) at time t: the payload, or the error it throws
jwtVerify(token, secret, t) ==
    IF token.form # "jws" THEN [ok |-> FALSE, error |-> "JWSInvalid", payload |-> NoPayload]
    ELSE IF token.alg # "HS256"
    THEN [ok |-> FALSE, error |-> "JOSEAlgNotAllowed", payload |-> NoPayload]
    ELSE IF token.sig # Sign(secret, token.alg, token.payload)
    THEN [ok |-> FALSE, error |-> "JWSSignatureVerificationFailed", payload |-> NoPayload]
    ELSE IF token.payload.exp <= Epoch(t)
    THEN [ok |-> FALSE, error |-> "JWTExpired", payload |-> NoPayload]
    ELSE [ok |-> TRUE, error |-> "", payload |-> token.payload]

\* verifySession as it would be without its try/catch
verifySession_NoCatch(token, t) ==
    LET v == jwtVerify(token, JWT_SECRET, t)
    IN  IF ~v.ok
        THEN [threw |-> TRUE, session |-> <<>>]
        ELSE LET expiresAt == ParseDate(v.payload.expiresAt)
             IN  IF expiresAt < t
                 THEN [threw |-> FALSE, session |-> <<>>]
                 ELSE [threw |-> FALSE,
                       session |-> <<[username |-> v.payload.username,
                                      expiresAt |-> expiresAt]>>]

\* verifySession as it would be if the server kept a list of logged-out tokens
verifySession_RevocationList(token, t) ==
    LET v == jwtVerify(token, JWT_SECRET, t)
    IN  IF ~v.ok \/ token \in loggedOut
        THEN [threw |-> FALSE, session |-> <<>>]
        ELSE LET expiresAt == ParseDate(v.payload.expiresAt)
             IN  IF expiresAt < t
                 THEN [threw |-> FALSE, session |-> <<>>]
                 ELSE [threw |-> FALSE,
                       session |-> <<[username |-> v.payload.username,
                                      expiresAt |-> expiresAt]>>]

\* verifySession(token) called at time t: whether an exception escapes it, and the
\* session it returns (<<>> is null)
verifySession(token, t) ==
    LET v == jwtVerify(token, JWT_SECRET, t)
    IN  IF ~v.ok
        THEN [threw |-> FALSE, session |-> <<>>]
        ELSE LET expiresAt == ParseDate(v.payload.expiresAt)
             IN  IF expiresAt < t
                 THEN [threw |-> FALSE, session |-> <<>>]
                 ELSE [threw |-> FALSE,
                       session |-> <<[username |-> v.payload.username,
                                      expiresAt |-> expiresAt]>>]

\* the clock values createSession can read: on both sides of a second boundary
IssueReads == {0, 500, 998, 999, 1000, 1500}

\* the clock values verifySession can read: soon after the issue, and around the end of
\* the two hours
VerifyReads ==
    {1500} \cup {SESSION_EXPIRATION_HOURS * HourMs + off :
                    off \in {0, 1, 500, 501, 999, 1000, 1001, 1500, 1501}}

\* createSession as it would be if jose rounded the exp second up
createSessionAt_ExpRoundedUp(username, dateNow, iatNow, expNow) ==
    LET expiresAt == dateNow + SESSION_EXPIRATION_HOURS * 60 * 60 * 1000
        payload == [username  |-> username,
                    expiresAt |-> ToISOString(expiresAt),
                    iat       |-> Epoch(iatNow),
                    exp       |-> (expNow + 999) \div 1000
                                     + SESSION_EXPIRATION_HOURS * 60 * 60]
    IN  [form |-> "jws", alg |-> "HS256", payload |-> payload,
         sig |-> Sign(JWT_SECRET, "HS256", payload)]

\* createSession(username) with its clock reads told apart: Date.now() gives dateNow for
\* expiresAt, then setIssuedAt() and setExpirationTime('2h') each take jose's
\* epoch(new Date()), at iatNow and expNow
createSessionAt(username, dateNow, iatNow, expNow) ==
    LET expiresAt == dateNow + SESSION_EXPIRATION_HOURS * 60 * 60 * 1000
        payload == [username  |-> username,
                    expiresAt |-> ToISOString(expiresAt),
                    iat       |-> Epoch(iatNow),
                    exp       |-> Epoch(expNow) + SESSION_EXPIRATION_HOURS * 60 * 60]
    IN  [form |-> "jws", alg |-> "HS256", payload |-> payload,
         sig |-> Sign(JWT_SECRET, "HS256", payload)]

\* verifySession(token) with its clock reads told apart: jwtVerify compares exp with
\* the clock at joseNow, and after the await the explicit check compares expiresAt with
\* new Date() at dateNow. jwt is jwtVerify's verdict, explicit that of the explicit
\* check on the payload (whether or not jwtVerify let the call reach it)
verifySessionAt(token, joseNow, dateNow) ==
    LET v == jwtVerify(token, JWT_SECRET, joseNow)
        expiresAt == ParseDate(token.payload.expiresAt)
    IN  [jwt      |-> IF v.ok THEN "ok" ELSE v.error,
         explicit |-> IF expiresAt < dateNow THEN "expired" ELSE "ok",
         session  |-> IF v.ok /\ ~(expiresAt < dateNow)
                      THEN <<[username |-> v.payload.username, expiresAt |-> expiresAt]>>
                      ELSE <<>>]

\* the tokens a client can make from a token it holds, without the server's secret
Tampered(tok) ==
    LET p   == tok.payload
        alt == {[p EXCEPT !.username = u] : u \in Identities \ {p.username}}
               \cup {[p EXCEPT !.expiresAt = ToISOString(ParseDate(@) + HourMs),
                               !.exp = @ + 3600]}
    IN  {[tok EXCEPT !.payload = q] : q \in alt}
        \cup {[tok EXCEPT !.payload = q, !.sig = Sign(AttackerSecret, "HS256", q)] : q \in alt}
        \cup {[tok EXCEPT !.sig = Sign(AttackerSecret, "HS256", p)],
              [tok EXCEPT !.alg = "none", !.sig = NoSig]}

IssuedTokens == {i.tok : i \in issued}

\* every cookie value a client can present
Candidates ==
    IssuedTokens \cup UNION {Tampered(tok) : tok \in IssuedTokens}
    \cup {GarbageToken, EmptyToken}

-----------------------------------------------------------------------------
(* The middleware: src/middleware.ts                                       *)

\* A pathname is the sequence of its pieces, so that String.startsWith is the prefix
\* relation on sequences: "/admin/loginx" is <<"/", "admin", "/", "login", "x">>.
\* Every path below is matched by config.matcher, so the middleware runs for it.
Paths ==
    { <<"/", "admin">>,
      <<"/", "admin", "/", "packages">>,
      <<"/", "admin", "/", "login">>,
      <<"/", "admin", "/", "login", "x">>,
      <<"/", "admin", "/", "login", "/", "x">>,
      <<"/", "api", "/", "admin", "/", "packages">>,
      <<"/", "api", "/", "auth", "/", "logout">>,
      <<"/", "api", "/", "auth", "/", "login">>,
      <<"/", "api", "/", "packages">> }

Methods == {"GET", "POST", "OPTIONS"}

\* String.prototype.startsWith
StartsWith(s, prefix) ==
    /\ Len(prefix) <= Len(s)
    /\ SubSeq(s, 1, Len(prefix)) = prefix

\* the responses the middleware builds
NextResponse_next(session, deleteCookie) ==
    [kind |-> "next", status |-> 200, location |-> <<>>, body |-> "",
     deleteCookie |-> deleteCookie, session |-> session]

NextResponse_redirect(location, deleteCookie) ==
    [kind |-> "redirect", status |-> 307, location |-> location, body |-> "",
     deleteCookie |-> deleteCookie, session |-> <<>>]

NextResponse_json(status, body) ==
    [kind |-> "json", status |-> status, location |-> <<>>, body |-> body,
     deleteCookie |-> FALSE, session |-> <<>>]

\* the response to a CORS preflight
Preflight ==
    [kind |-> "preflight", status |-> 200, location |-> <<>>, body |-> "",
     deleteCookie |-> FALSE, session |-> <<>>]

\* an exception that escapes the middleware
Unhandled ==
    [kind |-> "error", status |-> 500, location |-> <<>>, body |-> "",
     deleteCookie |-> FALSE, session |-> <<>>]

\* request.cookies.get('admin-session')?.value is falsy
NoToken(ck) == IF Len(ck) = 0 THEN TRUE ELSE ck[1].form = "empty"

\* the middleware as it would be if its API check left out /api/auth/logout
Middleware_LogoutUnprotected(path, method, ck, t) ==
    IF method = "OPTIONS" THEN Preflight
    ELSE IF StartsWith(path, <<"/", "api", "/">>) /\ method = "GET"
    THEN NextResponse_next(<<>>, FALSE)
    ELSE IF /\ StartsWith(path, <<"/", "admin">>)
            /\ ~StartsWith(path, <<"/", "admin", "/", "login">>)
    THEN IF NoToken(ck)
         THEN NextResponse_redirect(<<"/", "admin", "/", "login">>, FALSE)
         ELSE LET v == verifySession(ck[1], t)
              IN  IF v.threw THEN Unhandled
                  ELSE IF Len(v.session) = 0
                  THEN NextResponse_redirect(<<"/", "admin", "/", "login">>, TRUE)
                  ELSE NextResponse_next(<<>>, FALSE)
    ELSE IF StartsWith(path, <<"/", "api", "/", "admin">>)
    THEN IF NoToken(ck)
         THEN NextResponse_json(401, "Unauthorized: No session token")
         ELSE LET v == verifySession(ck[1], t)
              IN  IF v.threw THEN Unhandled
                  ELSE IF Len(v.session) = 0
                  THEN NextResponse_json(401, "Unauthorized: Invalid or expired session")
                  ELSE NextResponse_next(v.session, FALSE)
    ELSE IF path = <<"/", "admin", "/", "login">> /\ ~NoToken(ck)
    THEN LET v == verifySession(ck[1], t)
         IN  IF v.threw THEN Unhandled
             ELSE IF Len(v.session) = 1
             THEN NextResponse_redirect(<<"/", "admin">>, FALSE)
             ELSE NextResponse_next(<<>>, TRUE)
    ELSE NextResponse_next(<<>>, FALSE)

\* the middleware as it would be if /admin/login redirected every request that
\* carries a cookie, without verifying it
Middleware_LoginRedirectsAnyCookie(path, method, ck, t) ==
    IF method = "OPTIONS" THEN Preflight
    ELSE IF StartsWith(path, <<"/", "api", "/">>) /\ method = "GET"
    THEN NextResponse_next(<<>>, FALSE)
    ELSE IF /\ StartsWith(path, <<"/", "admin">>)
            /\ ~StartsWith(path, <<"/", "admin", "/", "login">>)
    THEN IF NoToken(ck)
         THEN NextResponse_redirect(<<"/", "admin", "/", "login">>, FALSE)
         ELSE LET v == verifySession(ck[1], t)
              IN  IF v.threw THEN Unhandled
                  ELSE IF Len(v.session) = 0
                  THEN NextResponse_redirect(<<"/", "admin", "/", "login">>, TRUE)
                  ELSE NextResponse_next(<<>>, FALSE)
    ELSE IF \/ StartsWith(path, <<"/", "api", "/", "admin">>)
            \/ StartsWith(path, <<"/", "api", "/", "auth", "/", "logout">>)
    THEN IF NoToken(ck)
         THEN NextResponse_json(401, "Unauthorized: No session token")
         ELSE LET v == verifySession(ck[1], t)
              IN  IF v.threw THEN Unhandled
                  ELSE IF Len(v.session) = 0
                  THEN NextResponse_json(401, "Unauthorized: Invalid or expired session")
                  ELSE NextResponse_next(v.session, FALSE)
    ELSE IF path = <<"/", "admin", "/", "login">> /\ ~NoToken(ck)
    THEN LET v == verifySession(ck[1], t)
         IN  IF v.threw THEN Unhandled
             ELSE NextResponse_redirect(<<"/", "admin">>, FALSE)
    ELSE NextResponse_next(<<>>, FALSE)

\* middleware(request) at time t; ck is the request's admin-session cookie.
\* The CORS headers depend on the request's origin alone and are left out.
Middleware(path, method, ck, t) ==
    IF method = "OPTIONS" THEN Preflight
    ELSE IF StartsWith(path, <<"/", "api", "/">>) /\ method = "GET"
    THEN NextResponse_next(<<>>, FALSE)
    ELSE IF /\ StartsWith(path, <<"/", "admin">>)
            /\ ~StartsWith(path, <<"/", "admin", "/", "login">>)
    THEN IF NoToken(ck)
         THEN NextResponse_redirect(<<"/", "admin", "/", "login">>, FALSE)
         ELSE LET v == verifySession(ck[1], t)
              IN  IF v.threw THEN Unhandled
                  ELSE IF Len(v.session) = 0
                  THEN NextResponse_redirect(<<"/", "admin", "/", "login">>, TRUE)
                  ELSE NextResponse_next(<<>>, FALSE)
    ELSE IF \/ StartsWith(path, <<"/", "api", "/", "admin">>)
            \/ StartsWith(path, <<"/", "api", "/", "auth", "/", "logout">>)
    THEN IF NoToken(ck)
         THEN NextResponse_json(401, "Unauthorized: No session token")
         ELSE LET v == verifySession(ck[1], t)
              IN  IF v.threw THEN Unhandled
                  ELSE IF Len(v.session) = 0
                  THEN NextResponse_json(401, "Unauthorized: Invalid or expired session")
                  ELSE NextResponse_next(v.session, FALSE)
    ELSE IF path = <<"/", "admin", "/", "login">> /\ ~NoToken(ck)
    THEN LET v == verifySession(ck[1], t)
         IN  IF v.threw THEN Unhandled
             ELSE IF Len(v.session) = 1
             THEN NextResponse_redirect(<<"/", "admin">>, FALSE)
             ELSE NextResponse_next(<<>>, TRUE)
    ELSE NextResponse_next(<<>>, FALSE)

\* POST /api/auth/logout: the handler that deletes the session cookie
IsLogout(path, method) ==
    path = <<"/", "api", "/", "auth", "/", "logout">> /\ method = "POST"

\* one request: the middleware answers or passes it on to the route handler, and the
\* client applies the cookie deletion of the response it gets
Request(path, method) ==
    LET r       == Middleware(path, method, cookie, now)
        reached == r.kind = "next"
    IN  /\ resp' = <<[path |-> path, method |-> method, sent |-> cookie, r |-> r,
                      handler |-> reached, redirects |-> 0]>>
        /\ cookie' = IF r.deleteCookie \/ (reached /\ IsLogout(path, method))
                     THEN <<>> ELSE cookie
        /\ loggedOut' = IF r.deleteCookie \/ (reached /\ IsLogout(path, method))
                        THEN loggedOut \cup {tok \in IssuedTokens :
                                                  cookie = <<tok>> /\ Epoch(now) < tok.payload.exp}
                        ELSE loggedOut
        /\ UNCHANGED <<now, issued, limiterVars, burstVars, loginVars, pureVars>>

\* the client follows the redirect it was just given: at time t it requests the
\* response's location with the method of the redirected request (status 307) and the
\* cookie it holds, to which the deletion the redirect carried has been applied.
\* redirects counts the redirects followed since the request that started the chain
Follow(t) ==
    /\ Len(resp) = 1
    /\ resp[1].r.kind = "redirect"
    /\ t >= now
    /\ LET path    == resp[1].r.location
           method  == resp[1].method
           r       == Middleware(path, method, cookie, t)
           reached == r.kind = "next"
           gone    == r.deleteCookie \/ (reached /\ IsLogout(path, method))
       IN  /\ resp' = <<[path |-> path, method |-> method, sent |-> cookie, r |-> r,
                         handler |-> reached, redirects |-> resp[1].redirects + 1]>>
           /\ cookie' = IF gone THEN <<>> ELSE cookie
           /\ loggedOut' = {tok \in loggedOut \cup (IF gone THEN {x \in IssuedTokens :
                                                                    cookie = <<x>>}
                                                     ELSE {}) :
                               Epoch(t) < tok.payload.exp}
    /\ now' = t
    /\ UNCHANGED <<issued, limiterVars, burstVars, loginVars, pureVars>>

\* a successful login: createSession(email), and the token set as the session cookie
CreateSession(u) ==
    /\ Cardinality(issued) < MaxTokens
    /\ LET tok == createSession(u, now)
       IN  /\ issued' = issued \cup {[tok |-> tok, user |-> u, at |-> now]}
           /\ cookie' = <<tok>>
    /\ resp' = <<>>
    /\ UNCHANGED <<now, loggedOut, limiterVars, burstVars, loginVars, pureVars>>

\* the client presents a cookie value of its choosing
Present(tok) ==
    /\ cookie # <<tok>>
    /\ cookie' = <<tok>>
    /\ resp' = <<>>
    /\ UNCHANGED <<now, issued, loggedOut, limiterVars, burstVars, loginVars, pureVars>>

\* the client discards its cookie
Discard ==
    /\ cookie # <<>>
    /\ cookie' = <<>>
    /\ resp' = <<>>
    /\ UNCHANGED <<now, issued, loggedOut, limiterVars, burstVars, loginVars, pureVars>>

\* the clock advances to a later instant
Advance(t) ==
    /\ t > now
    /\ now' = t
    /\ resp' = <<>>
    /\ loggedOut' = {tok \in loggedOut : Epoch(t) < tok.payload.exp}
    /\ UNCHANGED <<issued, cookie, limiterVars, burstVars, loginVars, pureVars>>

-----------------------------------------------------------------------------
(* The client's address: getClientIP of src/lib/errorHandler.ts            *)

\* A header value is the sequence of its pieces, so that split(',') and trim() work on
\* it as they do on the text: "1.2.3.4 , 5.6.7.8" is <<"1.2.3.4", " ", ",", " ", "5.6.7.8">>.
HeaderPieces == {" ", ",", "1.2.3.4", "5.6.7.8"}

Strings(n) == UNION {[1..m -> HeaderPieces] : m \in 0..n}

\* Headers.get gives a value without leading or trailing whitespace
Normalized(s) == IF Len(s) = 0 THEN TRUE ELSE s[1] # " " /\ s[Len(s)] # " "

\* what headers.get(name) can return: <<>> is null, <<s>> is the value s
ForwardedValues == {<<>>} \cup {<<s>> : s \in {x \in Strings(MaxHeaderLen) : Normalized(x)}}
AddressValues == {<<>>, <<<<>>>>, <<<<"9.9.9.9">>>>, <<<<"1.2.3.4", ",", "5.6.7.8">>>>}

HeaderSets == [forwarded : ForwardedValues, cloudflare : AddressValues, realIP : AddressValues]

\* if (value): the header is there and its value is not the empty string
Truthy(v) == IF Len(v) = 0 THEN FALSE ELSE Len(v[1]) > 0

\* s.split(',')[0]
SplitFirst(s) ==
    LET commas == {i \in 1..Len(s) : s[i] = ","}
    IN  IF commas = {} THEN s
        ELSE SubSeq(s, 1, (CHOOSE i \in commas : \A j \in commas : i <= j) - 1)

\* s.trim()
Trim(s) ==
    LET inked == {i \in 1..Len(s) : s[i] # " "}
    IN  IF inked = {} THEN <<>>
        ELSE SubSeq(s, CHOOSE i \in inked : \A j \in inked : i <= j,
                       CHOOSE i \in inked : \A j \in inked : i >= j)

\* getClientIP as it would be without the trim() of the first element
getClientIP_NoTrim(h) ==
    IF Truthy(h.forwarded) THEN SplitFirst(h.forwarded[1])
    ELSE IF Truthy(h.cloudflare) THEN h.cloudflare[1]
    ELSE IF Truthy(h.realIP) THEN h.realIP[1]
    ELSE <<"unknown">>

\* getClientIP(headers)
getClientIP(h) ==
    IF Truthy(h.forwarded) THEN Trim(SplitFirst(h.forwarded[1]))
    ELSE IF Truthy(h.cloudflare) THEN h.cloudflare[1]
    ELSE IF Truthy(h.realIP) THEN h.realIP[1]
    ELSE <<"unknown">>

\* the call getClientIP(args)
GetClientIP ==
    /\ fn = "getClientIP"
    /\ Len(ret) = 0
    /\ ret' = <<getClientIP(args)>>
    /\ UNCHANGED <<now, fn, args, limiterVars, sessionVars, burstVars, loginVars>>

-----------------------------------------------------------------------------
(* The profiles: RateLimitConfigs and getRateLimitConfig                   *)

RateLimitConfigs ==
    [type \in {"login", "admin", "publicAPI", "inquiry", "development"} |->
        CASE type = "login" ->
                 [windowMs |-> 15 * 60 * 1000, maxRequests |-> 5,
                  message |-> "Too many login attempts. Please try again later.",
                  statusCode |-> 429]
          [] type = "admin" ->
                 [windowMs |-> 1 * 60 * 1000, maxRequests |-> 30,
                  message |-> "Too many requests to admin API. Please slow down.",
                  statusCode |-> 429]
          [] type = "publicAPI" ->
                 [windowMs |-> 1 * 60 * 1000, maxRequests |-> 60,
                  message |-> "Too many requests. Please try again later.",
                  statusCode |-> 429]
          [] type = "inquiry" ->
                 [windowMs |-> 60 * 60 * 1000, maxRequests |-> 10,
                  message |-> "Too many inquiries. Please try again later.",
                  statusCode |-> 429]
          [] type = "development" ->
                 [windowMs |-> 60 * 60 * 1000, maxRequests |-> 1000000,
                  message |-> "Rate limited",
                  statusCode |-> 429]]

\* the type argument: a name of RateLimitConfigs, or (past the type checker) any other
ConfigTypes == DOMAIN RateLimitConfigs \cup {"unlisted"}

\* getRateLimitConfig as it would be if it did not look at isDevelopment
getRateLimitConfig_IgnoreFlag(type, isDevelopment) ==
    IF type \in DOMAIN RateLimitConfigs THEN RateLimitConfigs[type]
    ELSE RateLimitConfigs["publicAPI"]

\* getRateLimitConfig(type, isDevelopment)
getRateLimitConfig(type, isDevelopment) ==
    IF isDevelopment THEN RateLimitConfigs["development"]
    ELSE IF type \in DOMAIN RateLimitConfigs THEN RateLimitConfigs[type]
    ELSE RateLimitConfigs["publicAPI"]

\* the counts a live entry may hold when the next call comes
PriorCounts == {0, 4, 5, 9, 10, 29, 30, 59, 60, 999999, 1000000}

\* the call getRateLimitConfig(args.type, args.isDevelopment)
GetRateLimitConfig ==
    /\ fn = "getRateLimitConfig"
    /\ Len(ret) = 0
    /\ ret' = <<getRateLimitConfig(args.type, args.isDevelopment)>>
    /\ UNCHANGED <<now, fn, args, limiterVars, sessionVars, burstVars, loginVars>>

\* one call limiter(k) of createRateLimiter(ret[1]), the profile getRateLimitConfig gave
ConfiguredCall(k) ==
    /\ fn = "getRateLimitConfig"
    /\ Len(ret) = 1
    /\ ~last.called
    /\ LET cfg   == ret[1]
           entry == IncrementEntry(store, k, cfg.windowMs, now)
       IN  /\ store' = Increment(store, k, cfg.windowMs, now)
           /\ last' = [called |-> TRUE, key |-> k,
                       cfg |-> [windowMs |-> cfg.windowMs, maxRequests |-> cfg.maxRequests],
                       res |-> LimiterResult(cfg, entry, now),
                       before |-> IF k \in DOMAIN store THEN <<store[k]>> ELSE <<>>,
                       after  |-> <<entry>>]
    /\ UNCHANGED <<now, timerOn, calls, sessionVars, burstVars, loginVars, pureVars>>

-----------------------------------------------------------------------------
(* The credential check: verifyCredentials of src/lib/auth.ts              *)

\* a bcrypt hash: bcrypt.compare(password, hash) is true for the password it was made of
Hash(password) == [of |-> password]

TARGET_EMAIL == "admin@russoluxtours.de"
TARGET_HASH == Hash("RussoLux2026!")

Passwords == {"RussoLux2026!", "configured-password"}

\* process.env: ADMIN_EMAIL and ADMIN_PASSWORD are set (the module throws on load if not)
Envs == [ADMIN_EMAIL : Identities, ADMIN_PASSWORD : {Hash(p) : p \in Passwords}]

\* bcrypt.compare(password, hash): its value, or the error it rejects with
bcryptCompare(password, hash, fails) ==
    IF fails THEN [threw |-> TRUE, value |-> FALSE]
    ELSE [threw |-> FALSE, value |-> hash = Hash(password)]

\* verifyCredentials(email, password) under process.env = env: the value it resolves to
\* and the setTimeout delays it awaited on the way, in milliseconds
verifyCredentials(email, password, env, fails) ==
    LET adminEmail    == env.ADMIN_EMAIL
        adminPassword == env.ADMIN_PASSWORD
    IN  IF email # TARGET_EMAIL
        THEN [value |-> FALSE, delays |-> <<100>>]
        ELSE LET c == bcryptCompare(password, TARGET_HASH, fails)
             IN  IF c.threw THEN [value |-> FALSE, delays |-> <<>>]
                 ELSE [value |-> c.value, delays |-> <<>>]

\* the call verifyCredentials(args.email, args.password)
VerifyCredentials ==
    /\ fn = "verifyCredentials"
    /\ Len(ret) = 0
    /\ ret' = <<verifyCredentials(args.email, args.password, args.env, args.fails)>>
    /\ UNCHANGED <<now, fn, args, limiterVars, sessionVars, burstVars, loginVars>>

\* the call createSession(args.username), its clock reads at args.dateNow, args.iatNow
\* and args.expNow
CreateSessionCall ==
    /\ fn = "createSession"
    /\ Len(ret) = 0
    /\ ret' = <<createSessionAt(args.username, args.dateNow, args.iatNow, args.expNow)>>
    /\ UNCHANGED <<now, fn, args, limiterVars, sessionVars, burstVars, loginVars>>

\* the call verifySession(ret[1]) on the token createSession returned, its clock reads
\* at args.verifyJose and args.verifyDate
VerifySessionCall ==
    /\ fn = "createSession"
    /\ Len(ret) = 1
    /\ ret' = ret \o <<verifySessionAt(ret[1], args.verifyJose, args.verifyDate)>>
    /\ UNCHANGED <<now, fn, args, limiterVars, sessionVars, burstVars, loginVars>>

-----------------------------------------------------------------------------
(* The login route: POST of src/app/api/auth/login/route.ts                *)

\* loginLimiter's profile, in a deployment whose NODE_ENV is not 'development'
loginLimiter == getRateLimitConfig("login", FALSE)

\* the headers of the login requests of one client behind no proxy: none of the three
\* headers, or an empty x-forwarded-for
LoginHeaders ==
    { [forwarded |-> <<>>, cloudflare |-> <<>>, realIP |-> <<>>],
      [forwarded |-> <<<<>>>>, cloudflare |-> <<>>, realIP |-> <<>>] }

\* `login:${clientIP}`
RateLimitKey(h) == <<"login:">> \o getClientIP(h)

LoginKeys == {RateLimitKey(h) : h \in LoginHeaders}

\* the deployment's process.env
ProcessEnv == [ADMIN_EMAIL |-> "mallory@example.com",
               ADMIN_PASSWORD |-> Hash("configured-password")]

\* a request body: text that request.json() parses or not, and the fields it then has
Bodies ==
    [parses : {TRUE}, email : Identities \cup {"not-an-email"},
     password : Passwords \cup {""}]
    \cup {[parses |-> FALSE, email |-> "", password |-> ""]}

\* loginSchema.safeParse(body).success
loginSchema(body) == body.email \in Identities /\ body.password # ""

\* the instants of the login model's clock
LoginInstants == {0, 1000, 15 * 60 * 1000, 15 * 60 * 1000 + 1000}

\* the responses of the handler
LoginJson(status, error) ==
    [status |-> status, error |-> error, retryAfter |-> <<>>, retryAfterHeader |-> <<>>,
     remaining |-> <<>>, email |-> <<>>, cookie |-> <<>>]

\* a request suspended at one of the handler's awaits, with the locals it still reads:
\* of rateLimitResult the remaining count (and the window it was counted in)
Suspended(pc, key, res, email, password, wake, tok) ==
    [pc |-> pc, key |-> key,
     rl |-> [remaining |-> res.remaining, resetTime |-> res.resetTime],
     email |-> email, password |-> password, wake |-> wake, tok |-> tok]

\* the number of verifyCredentials calls counted for the window w of a key
Verifs(w) == IF w \in DOMAIN verifs THEN verifs[w] ELSE 0

\* LoginStart as it would be if the handler went on to read the body after a rejected
\* limiter call
LoginStart_NoEarlyReturn(h) ==
    LET k     == RateLimitKey(h)
        entry == IncrementEntry(store, k, loginLimiter.windowMs, now)
        res   == LimiterResult(loginLimiter, entry, now)
    IN  /\ Cardinality(inflight) < MaxInFlight
        /\ IF Live(store, k, now) THEN calls[k] < MaxLoginCalls ELSE TRUE
        /\ store' = Increment(store, k, loginLimiter.windowMs, now)
        /\ last' = [called |-> TRUE, key |-> k,
                    cfg |-> [windowMs |-> loginLimiter.windowMs,
                             maxRequests |-> loginLimiter.maxRequests],
                    res |-> res,
                    before |-> IF k \in DOMAIN store THEN <<store[k]>> ELSE <<>>,
                    after  |-> <<entry>>]
        /\ calls' = [calls EXCEPT ![k] = IF Live(store, k, now) THEN @ + 1 ELSE 1]
        /\ admits' = [admits EXCEPT ![k] =
                         (IF Live(store, k, now) THEN @ ELSE 0)
                         + (IF res.allowed THEN 1 ELSE 0)]
        /\ loginResp' = <<>>
        /\ inflight' = inflight \cup {Suspended("json", k, res, "", "", 0, EmptyToken)}
        /\ UNCHANGED <<now, timerOn, verifs, sessionVars, burstVars, pureVars>>

\* lines 15-40: the handler runs from its start to await request.json(), or to the 429
LoginStart(h) ==
    LET k     == RateLimitKey(h)
        entry == IncrementEntry(store, k, loginLimiter.windowMs, now)
        res   == LimiterResult(loginLimiter, entry, now)
    IN  /\ res.allowed => Cardinality(inflight) < MaxInFlight
        /\ IF Live(store, k, now) THEN calls[k] < MaxLoginCalls ELSE TRUE
        /\ store' = Increment(store, k, loginLimiter.windowMs, now)
        /\ last' = [called |-> TRUE, key |-> k,
                    cfg |-> [windowMs |-> loginLimiter.windowMs,
                             maxRequests |-> loginLimiter.maxRequests],
                    res |-> res,
                    before |-> IF k \in DOMAIN store THEN <<store[k]>> ELSE <<>>,
                    after  |-> <<entry>>]
        /\ calls' = [calls EXCEPT ![k] = IF Live(store, k, now) THEN @ + 1 ELSE 1]
        /\ admits' = [admits EXCEPT ![k] =
                         (IF Live(store, k, now) THEN @ ELSE 0)
                         + (IF res.allowed THEN 1 ELSE 0)]
        /\ IF ~res.allowed
           THEN /\ loginResp' = <<[LoginJson(429, "Too many login attempts")
                                    EXCEPT !.retryAfter = <<res.retryAfter>>,
                                           !.retryAfterHeader = <<res.retryAfter>>]>>
                /\ inflight' = inflight
           ELSE /\ loginResp' = <<>>
                /\ inflight' = inflight \cup
                       {Suspended("json", k, res, "", "", 0, EmptyToken)}
        /\ UNCHANGED <<now, timerOn, verifs, sessionVars, burstVars, pureVars>>

\* lines 40-54: request.json() settles; the body is validated and verifyCredentials is
\* called, which runs to its first await
LoginParsed(r, body) ==
    /\ r \in inflight
    /\ r.pc = "json"
    /\ IF ~body.parses
       THEN /\ loginResp' = <<LoginJson(500, "Internal server error")>>
            /\ inflight' = inflight \ {r}
            /\ verifs' = verifs
       ELSE IF ~loginSchema(body)
       THEN /\ loginResp' = <<LoginJson(400, "Invalid input: Email and password are required")>>
            /\ inflight' = inflight \ {r}
            /\ verifs' = verifs
       ELSE /\ loginResp' = <<>>
            /\ inflight' = (inflight \ {r}) \cup
                   {[r EXCEPT !.pc = "verify", !.email = body.email,
                              !.password = body.password]}
            /\ verifs' = MapSet(verifs, <<r.key, r.rl.resetTime>>,
                                Verifs(<<r.key, r.rl.resetTime>>) + 1)
    /\ last' = NoCall
    /\ UNCHANGED <<now, store, timerOn, calls, admits, sessionVars, burstVars, pureVars>>

\* lines 54-73: verifyCredentials settles; on false the handler awaits its 1000 ms timer,
\* on true it calls createSession, which reads the clock and awaits the signature
LoginVerified(r, fails) ==
    /\ r \in inflight
    /\ r.pc = "verify"
    /\ LET v == verifyCredentials(r.email, r.password, ProcessEnv, fails)
       IN  inflight' = (inflight \ {r}) \cup
               {IF v.value
                THEN [r EXCEPT !.pc = "session", !.password = "",
                               !.tok = createSession(r.email, now)]
                ELSE [r EXCEPT !.pc = "delay", !.email = "", !.password = "",
                               !.wake = now + 1000]}
    /\ loginResp' = <<>>
    /\ last' = NoCall
    /\ UNCHANGED <<now, store, timerOn, calls, admits, verifs, sessionVars, burstVars,
                   pureVars>>

\* lines 61-70: the timer has fired; the 401 carries the remaining count of the limiter
\* call made at the start
LoginDelayed(r) ==
    /\ r \in inflight
    /\ r.pc = "delay"
    /\ now >= r.wake
    /\ loginResp' = <<[LoginJson(401, "Invalid credentials")
                        EXCEPT !.remaining = <<r.rl.remaining>>]>>
    /\ inflight' = inflight \ {r}
    /\ last' = NoCall
    /\ UNCHANGED <<now, store, timerOn, calls, admits, verifs, sessionVars, burstVars,
                   pureVars>>

\* LoginSigned as it would be if a successful login reset the key's counter
LoginSigned_ResetsCounter(r) ==
    /\ r \in inflight
    /\ r.pc = "session"
    /\ loginResp' = <<[LoginJson(200, "") EXCEPT !.email = <<r.email>>,
                                                  !.cookie = <<r.tok>>]>>
    /\ inflight' = inflight \ {r}
    /\ last' = NoCall
    /\ store' = MapDelete(store, {r.key})
    /\ UNCHANGED <<now, timerOn, calls, admits, verifs, sessionVars, burstVars, pureVars>>

\* lines 73-91: createSession settles; the token is set as the admin-session cookie
LoginSigned(r) ==
    /\ r \in inflight
    /\ r.pc = "session"
    /\ loginResp' = <<[LoginJson(200, "") EXCEPT !.email = <<r.email>>,
                                                  !.cookie = <<r.tok>>]>>
    /\ inflight' = inflight \ {r}
    /\ last' = NoCall
    /\ UNCHANGED <<now, store, timerOn, calls, admits, verifs, sessionVars, burstVars,
                   pureVars>>

\* the clock advances to a later instant
LoginAdvance(t) ==
    /\ t > now
    /\ now' = t
    /\ loginResp' = <<>>
    /\ last' = NoCall
    /\ UNCHANGED <<store, timerOn, calls, admits, inflight, verifs, sessionVars, burstVars,
                   pureVars>>

\* the cleanup pass of the store, while login requests are in flight
LoginCleanup ==
    /\ timerOn
    /\ store' = MapDelete(store, ExpiredKeys(store, now))
    /\ loginResp' = <<>>
    /\ last' = NoCall
    /\ UNCHANGED <<now, timerOn, calls, admits, inflight, verifs, sessionVars, burstVars,
                   pureVars>>

InitLimiter ==
    /\ store = [k \in {} |-> NoConfig]
    /\ timerOn = TRUE
    /\ last = NoCall
    /\ calls = [k \in Keys |-> 0]

InitSession ==
    /\ issued = {}
    /\ cookie = <<>>
    /\ resp = <<>>
    /\ loggedOut = {}

\* no limiter under observation
InitBurst ==
    /\ profile = NoConfig
    /\ recent = [k \in Keys |-> <<>>]

\* no login request in flight
InitLogin ==
    /\ inflight = {}
    /\ verifs = [w \in {} |-> 0]
    /\ admits = [k \in Keys |-> 0]
    /\ loginResp = <<>>

\* no pure function under test
InitPure ==
    /\ fn = "none"
    /\ args = <<>>
    /\ ret = <<>>

\* one limiter has been made by createRateLimiter, with any of the profiles
InitProfiled ==
    /\ now = 0
    /\ InitLimiter
    /\ InitSession
    /\ profile \in Configs
    /\ recent = [k \in Keys |-> <<>>]
    /\ InitLogin
    /\ InitPure

\* a pure function is about to be called with arguments drawn from its domain; for
\* getRateLimitConfig, the key of the call that follows may hold a live entry already
InitCalled ==
    /\ now = 0
    /\ timerOn = TRUE
    /\ last = NoCall
    /\ calls = [k \in Keys |-> 0]
    /\ InitSession
    /\ InitBurst
    /\ InitLogin
    /\ ret = <<>>
    /\ \/ /\ fn = "getClientIP"
          /\ args \in HeaderSets
          /\ store = [k \in {} |-> NoConfig]
       \/ /\ fn = "verifyCredentials"
          /\ args \in [email : Identities, password : Passwords, env : Envs,
                        fails : BOOLEAN]
          /\ store = [k \in {} |-> NoConfig]
       \/ /\ fn = "createSession"
          /\ args \in {a \in [username : Identities, dateNow : IssueReads,
                               iatNow : IssueReads, expNow : IssueReads,
                               verifyJose : VerifyReads, verifyDate : VerifyReads] :
                           /\ a.dateNow <= a.iatNow
                           /\ a.iatNow <= a.expNow
                           /\ a.verifyJose <= a.verifyDate}
          /\ store = [k \in {} |-> NoConfig]
       \/ /\ fn = "getRateLimitConfig"
          /\ args \in [type : ConfigTypes, isDevelopment : BOOLEAN]
          /\ \E c \in PriorCounts :
                 store = IF c = 0 THEN [k \in {} |-> NoConfig]
                         ELSE [k \in {"login:unknown"} |->
                                 [count |-> c, firstRequest |-> 0,
                                  resetTime |-> getRateLimitConfig(args.type,
                                                    args.isDevelopment).windowMs]]

\* the server has started and no login request has come yet
InitServing ==
    /\ now = 0
    /\ store = [k \in {} |-> NoConfig]
    /\ timerOn = TRUE
    /\ last = NoCall
    /\ calls = [k \in LoginKeys |-> 0]
    /\ admits = [k \in LoginKeys |-> 0]
    /\ inflight = {}
    /\ verifs = [w \in {} |-> 0]
    /\ loginResp = <<>>
    /\ InitSession
    /\ InitBurst
    /\ InitPure

Init ==
    /\ now = 0
    /\ InitLimiter
    /\ InitSession
    /\ InitBurst
    /\ InitLogin
    /\ InitPure

Next ==
    \/ \E k \in Keys, cfg \in Configs : Limiter(k, cfg)
    \/ Cleanup
    \/ Destroy
    \/ \E d \in StepMs : Tick(d)

Spec == Init /\ [][Next]_vars

\* one limiter and its keys, with the cleanup timer running and no teardown
NextBurst ==
    \/ \E k \in Keys : ProfiledCall(k)
    \/ Cleanup
    \/ \E d \in StepMs : Tick(d)

SpecBurst == InitProfiled /\ [][NextBurst]_vars

\* the pure functions, each applied to the arguments drawn
NextPure ==
    \/ GetClientIP
    \/ GetRateLimitConfig
    \/ \E k \in {"login:unknown"} : ConfiguredCall(k)
    \/ VerifyCredentials
    \/ CreateSessionCall
    \/ VerifySessionCall

SpecPure == InitCalled /\ [][NextPure]_vars

\* login requests, interleaved at the awaits of the handler
NextLogin ==
    \/ \E h \in LoginHeaders : LoginStart(h)
    \/ \E r \in inflight, body \in Bodies : LoginParsed(r, body)
    \/ \E r \in inflight, fails \in BOOLEAN : LoginVerified(r, fails)
    \/ \E r \in inflight : LoginDelayed(r)
    \/ \E r \in inflight : LoginSigned(r)
    \/ \E t \in LoginInstants : LoginAdvance(t)
    \/ LoginCleanup

SpecLogin == InitServing /\ [][NextLogin]_vars

NextSession ==
    \/ \E u \in Identities : CreateSession(u)
    \/ \E tok \in Candidates : Present(tok)
    \/ Discard
    \/ \E t \in Instants : Advance(t)
    \/ \E path \in Paths, method \in Methods : Request(path, method)
    \/ \E t \in Instants : Follow(t)

SpecSession == Init /\ [][NextSession]_vars

-----------------------------------------------------------------------------
(* Claims about the rate limiter, checked under Spec                       *)

\* C1: counting from the first call made when the key had no live entry, a call made
\* while the entry's window is live is allowed exactly when it is one of the first
\* maxRequests calls: calls 1..maxRequests return allowed = TRUE and call
\* maxRequests + 1 returns allowed = FALSE.
C1_WindowAdmissionBound ==
    last.called =>
        /\ calls[last.key] <= last.cfg.maxRequests => last.res.allowed
        /\ calls[last.key] >= last.cfg.maxRequests + 1 => ~last.res.allowed

\* the (maxRequests + 1)th call of a window has been rejected, for the largest profile
C1_Witness ==
    /\ last.called
    /\ last.cfg.maxRequests = MaxRequestsBound
    /\ calls[last.key] = last.cfg.maxRequests + 1
    /\ ~last.res.allowed

\* C2: a call made once the clock has passed the entry's resetTime replaces the entry
\* with count = 1 and resetTime = now + windowMs and returns allowed = TRUE, however
\* many calls the expired window counted.
C2_WindowReset ==
    (last.called /\ Len(last.before) = 1 /\ last.before[1].resetTime < now) =>
        /\ last.key \in DOMAIN store
        /\ store[last.key].count = 1
        /\ store[last.key].resetTime = now + last.cfg.windowMs
        /\ last.res.allowed
        /\ last.res.resetTime = now + last.cfg.windowMs

\* a call has replaced an expired entry that had counted rejected calls
C2_Witness ==
    /\ last.called
    /\ Len(last.before) = 1
    /\ last.before[1].resetTime < now
    /\ last.before[1].count > MaxRequestsBound
    /\ store[last.key].count = 1

\* C3: within one window the returned remaining is maxRequests - n on the n-th call
\* while n <= maxRequests (so it falls by exactly 1 with each admitted call, from
\* maxRequests - 1 to 0) and 0 on every rejected call; it is never negative.
C3_RemainingQuota ==
    last.called =>
        LET n == calls[last.key]
        IN  /\ last.res.remaining >= 0
            /\ n <= last.cfg.maxRequests => last.res.remaining = last.cfg.maxRequests - n
            /\ ~last.res.allowed => last.res.remaining = 0

\* a rejected call beyond maxRequests + 1 has returned remaining = 0
C3_Witness ==
    /\ last.called
    /\ calls[last.key] = last.cfg.maxRequests + 2
    /\ ~last.res.allowed
    /\ last.res.remaining = 0

\* C13: after a cleanup pass at time now no entry with resetTime < now remains in the
\* store, whether or not its key was called again; every entry whose window is still
\* live stays with count and resetTime unchanged; and the pass can run on any store,
\* the empty one included, while the timer is armed.
C13_CleanupCorrectness ==
    /\ [](timerOn => ENABLED Cleanup)
    /\ [][Cleanup =>
            /\ \A k \in DOMAIN store' : ~(store'[k].resetTime < now')
            /\ \A k \in DOMAIN store :
                   store[k].resetTime >= now => (k \in DOMAIN store' /\ store'[k] = store[k])
            /\ DOMAIN store' \subseteq DOMAIN store]_vars

\* with the timer armed, a key that was called has no entry any more while another
\* key's live entry is still in the store: a pass removed the one and kept the other
C13_Witness ==
    /\ timerOn
    /\ \E k \in Keys : calls[k] > 0 /\ k \notin DOMAIN store
    /\ \E k \in DOMAIN store : now <= store[k].resetTime /\ store[k].count > 1

\* C14 as stated: whenever the limiter returns allowed = FALSE, retryAfter > 0.
C14_RetryAfterPositive ==
    (last.called /\ ~last.res.allowed) => last.res.retryAfter > 0

\* C14 as amended: retryAfter is the least s >= 0 with 1000 * s >= resetTime - now, so it
\* is never negative; on a rejected call it is > 0 when now < resetTime and 0 when the
\* call falls exactly on resetTime.
C14_RetryAfterCeil ==
    last.called =>
        LET d == last.res.resetTime - now
            s == last.res.retryAfter
        IN  /\ s >= 0
            /\ 1000 * s >= d
            /\ s > 0 => 1000 * (s - 1) < d
            /\ (~last.res.allowed /\ now < last.res.resetTime) => s > 0
            /\ (~last.res.allowed /\ now = last.res.resetTime) => s = 0

\* a call has been rejected at the very millisecond of resetTime, with retryAfter 0
C14_Witness ==
    /\ last.called
    /\ ~last.res.allowed
    /\ now = last.res.resetTime
    /\ last.res.retryAfter = 0

\* C15: with no store teardown, for any key and profile the calls admitted within any
\* time interval of length windowMs number at most 2 * maxRequests. Checked under
\* SpecBurst, for the interval that ends at the present; every interval of that length
\* holds the admissions of such an interval ending at one of its own.
C15_BurstBound ==
    \A k \in Keys :
        Len(Within(recent[k], profile.windowMs, now)) <= 2 * profile.maxRequests

\* a call has just been admitted and, with the admissions of the window before, more
\* than maxRequests calls of the key have been admitted within the last windowMs
C15_Witness ==
    /\ last.called
    /\ last.res.allowed
    /\ Len(Within(recent[last.key], profile.windowMs, now)) > profile.maxRequests

-----------------------------------------------------------------------------
(* Claims about the session authority and the middleware, checked under    *)
(* SpecSession                                                             *)

\* the cookie holds a token for which verifySession returns a session at time t
Authenticated(ck, t) ==
    IF Len(ck) = 0 THEN FALSE ELSE Len(verifySession(ck[1], t).session) = 1

\* the path is /admin or lies under it
UnderAdmin(path) ==
    path = <<"/", "admin">> \/ StartsWith(path, <<"/", "admin", "/">>)

\* the path is /api/admin or lies under it
UnderApiAdmin(path) ==
    \/ path = <<"/", "api", "/", "admin">>
    \/ StartsWith(path, <<"/", "api", "/", "admin", "/">>)

\* the middleware turns away a request for this route that carries no cookie
Protected(path, method) ==
    Middleware(path, method, <<>>, now).kind \in {"redirect", "json"}

\* C4: a request to a path under /api/admin with a method other than OPTIONS reaches
\* its route handler only if the cookie holds a token that verifySession accepts;
\* otherwise the middleware answers 401.
C4_AdminApiRequiresSession ==
    \A i \in 1..Len(resp) :
        (UnderApiAdmin(resp[i].path) /\ resp[i].method # "OPTIONS") =>
            IF Authenticated(resp[i].sent, now)
            THEN TRUE
            ELSE ~resp[i].handler /\ resp[i].r.status = 401

\* C5: a request to a path under /admin other than /admin/login is passed through only
\* if the cookie holds a token that verifySession accepts; otherwise the response is a
\* redirect to /admin/login.
C5_AdminPagesRequireSession ==
    \A i \in 1..Len(resp) :
        (/\ UnderAdmin(resp[i].path)
         /\ resp[i].path # <<"/", "admin", "/", "login">>
         /\ resp[i].method # "OPTIONS") =>
            IF Authenticated(resp[i].sent, now)
            THEN TRUE
            ELSE /\ ~resp[i].handler
                 /\ resp[i].r.kind = "redirect"
                 /\ resp[i].r.location = <<"/", "admin", "/", "login">>

C7_SessionRoundTrip ==
    \A i \in issued :
        now = i.at =>
            verifySession(i.tok, now) =
                [threw |-> FALSE,
                 session |-> <<[username |-> i.user, expiresAt |-> i.at + 2 * HourMs]>>]

\* a request made at the time of issue (not on a whole second) has been passed on with
\* the session of the token
C7_Witness ==
    \E i \in issued :
        /\ now = i.at
        /\ i.at % 1000 # 0
        /\ Len(resp) = 1
        /\ resp[1].sent = <<i.tok>>
        /\ resp[1].r.session = <<[username |-> i.user, expiresAt |-> i.at + 2 * HourMs]>>

\* C8: a token that differs from the issued tokens and was not made with the server's
\* secret makes verifySession return null: no altered username or expiresAt is returned.
C8_TamperRejection ==
    \A tok \in Candidates \ IssuedTokens : Len(verifySession(tok, now).session) = 0

\* a request carrying an altered copy of an unexpired token has been answered 401
C8_Witness ==
    \E i \in issued :
        /\ now < i.at + 2 * HourMs - MinuteMs
        /\ Len(resp) = 1
        /\ Len(resp[1].sent) = 1
        /\ resp[1].sent[1] \in Tampered(i.tok)
        /\ resp[1].sent[1].payload.username # i.user
        /\ resp[1].r.status = 401

\* C9: verifySession never throws: for every token it returns a session or null, and an
\* expired token, a forged token and a malformed token all give the same result, null.
C9_VerifyNeverThrows ==
    /\ \A tok \in Candidates :
           /\ ~verifySession(tok, now).threw
           /\ Len(verifySession(tok, now).session) <= 1
    /\ \A tok \in (Candidates \ IssuedTokens)
                  \cup {i.tok : i \in {j \in issued : now >= j.at + 2 * HourMs}} :
           verifySession(tok, now) = [threw |-> FALSE, session |-> <<>>]

\* a request carrying an expired token has been answered 401 with the clock past expiry
C9_Witness ==
    \E i \in issued :
        /\ now > i.at + 2 * HourMs
        /\ Len(resp) = 1
        /\ resp[1].sent = <<i.tok>>
        /\ resp[1].r.status = 401

\* C10 as stated: on a protected route, the response to a caller whose token fails
\* verification is the response to a caller who sent no token.
C10_UniformRejection ==
    \A i \in 1..Len(resp) :
        (Protected(resp[i].path, resp[i].method) /\ ~Authenticated(resp[i].sent, now)) =>
            resp[i].r = Middleware(resp[i].path, resp[i].method, <<>>, now)

\* C10 as amended: on a protected route, the response to a token that fails verification
\* is the same whichever token it is (expired, tampered or malformed), and it has the
\* status and redirect target of the response to a caller who sent no token.
C10_RejectionUniformAcrossInvalidTokens ==
    \A i \in 1..Len(resp) :
        (/\ Protected(resp[i].path, resp[i].method)
         /\ ~NoToken(resp[i].sent)
         /\ ~Authenticated(resp[i].sent, now)) =>
            /\ \A tok \in Candidates \ {EmptyToken} :
                   ~Authenticated(<<tok>>, now) =>
                       Middleware(resp[i].path, resp[i].method, <<tok>>, now) = resp[i].r
            /\ LET none == Middleware(resp[i].path, resp[i].method, <<>>, now)
               IN  /\ none.kind = resp[i].r.kind
                   /\ none.status = resp[i].r.status
                   /\ none.location = resp[i].r.location

\* a request carrying an expired token has been turned away from an admin page
C10_Witness ==
    \E i \in issued :
        /\ now >= i.at + 2 * HourMs
        /\ Len(resp) = 1
        /\ resp[1].sent = <<i.tok>>
        /\ resp[1].r.kind = "redirect"
        /\ resp[1].r.deleteCookie

\* C16: a session token is never revoked by the server. Once the logout handler has run
\* for an issued token (or a response of the middleware has deleted its cookie), the
\* token still verifies at every time before its exp second, and a request presenting
\* it again to a protected route is still passed on to the route handler.
C16_NoServerSideRevocation ==
    /\ \A tok \in loggedOut :
           Epoch(now) < tok.payload.exp =>
               /\ Len(verifySession(tok, now).session) = 1
               /\ \A path \in Paths, method \in Methods :
                      Protected(path, method) =>
                          Middleware(path, method, <<tok>>, now).kind = "next"
    /\ \A i \in 1..Len(resp) :
           (/\ Len(resp[i].sent) = 1
            /\ resp[i].sent[1] \in loggedOut
            /\ Epoch(now) < resp[i].sent[1].payload.exp
            /\ Protected(resp[i].path, resp[i].method)) => resp[i].handler

\* after its logout the token has been presented again, before its expiry, with a POST to
\* the admin API, and the request has reached the route handler with the token's session
C16_Witness ==
    \E i \in issued :
        /\ i.tok \in loggedOut
        /\ Epoch(now) < i.tok.payload.exp
        /\ now > i.at
        /\ Len(resp) = 1
        /\ resp[1].sent = <<i.tok>>
        /\ resp[1].path = <<"/", "api", "/", "admin", "/", "packages">>
        /\ resp[1].method = "POST"
        /\ resp[1].handler
        /\ resp[1].r.session = <<[username |-> i.user, expiresAt |-> i.at + 2 * HourMs]>>

-----------------------------------------------------------------------------
(* Claims about getClientIP, getRateLimitConfig and verifyCredentials,     *)
(* checked under SpecPure                                                  *)

\* the header is present with a value that is not the empty string
PresentNonEmpty(v) == Len(v) = 1 /\ v # <<<<>>>>

\* r is the first comma-separated element of s with the whitespace around it removed
IsTrimmedFirstElement(r, s) ==
    \E n \in 0..Len(s) :
        /\ \A j \in 1..n : s[j] # ","
        /\ IF n < Len(s) THEN s[n + 1] = "," ELSE TRUE
        /\ \E a \in 0..n :
               /\ a + Len(r) <= n
               /\ r = SubSeq(s, a + 1, a + Len(r))
               /\ \A j \in (1..a) \cup ((a + Len(r) + 1)..n) : s[j] = " "
               /\ IF Len(r) = 0 THEN TRUE ELSE r[1] # " " /\ r[Len(r)] # " "

C19_ProfileSelection ==
    (fn = "getRateLimitConfig" /\ Len(ret) = 1) =>
        LET w == ret[1].windowMs
            m == ret[1].maxRequests
        IN  /\ args.isDevelopment => (w = 3600000 /\ m = 1000000)
            /\ (~args.isDevelopment /\ args.type = "login") => (w = 900000 /\ m = 5)
            /\ (~args.isDevelopment /\ args.type = "admin") => (w = 60000 /\ m = 30)
            /\ (~args.isDevelopment /\ args.type = "publicAPI") => (w = 60000 /\ m = 60)
            /\ (~args.isDevelopment /\ args.type = "inquiry") => (w = 3600000 /\ m = 10)
            /\ (args.isDevelopment /\ last.called /\ last.after[1].count < 1000001) =>
                   last.res.allowed

\* the limiter built for type login with isDevelopment true has admitted the 1,000,000th
\* call of a window
C19_Witness ==
    /\ fn = "getRateLimitConfig"
    /\ args = [type |-> "login", isDevelopment |-> TRUE]
    /\ Len(ret) = 1
    /\ last.called
    /\ last.after[1].count = 1000000
    /\ last.res.allowed
    /\ last.res.remaining = 0

\* C12: every path through verifyCredentials that returns false (identity mismatch,
\* password mismatch, hash-comparison error) has awaited the artificial delay.
C12_DelayOnEveryFailure ==
    (fn = "verifyCredentials" /\ Len(ret) = 1 /\ ~ret[1].value) =>
        Len(ret[1].delays) > 0

\* C18: verifyCredentials(identity, password) returns true exactly when identity equals
\* the configured ADMIN_EMAIL and password matches the configured ADMIN_PASSWORD hash
\* (the comparison itself not failing).
C18_CredentialsFromConfiguration ==
    (fn = "verifyCredentials" /\ Len(ret) = 1 /\ ~args.fails) =>
        (ret[1].value <=>
            /\ args.email = args.env.ADMIN_EMAIL
            /\ bcryptCompare(args.password, args.env.ADMIN_PASSWORD, FALSE).value)

-----------------------------------------------------------------------------
(* Claims about the login route, checked under SpecLogin                   *)

\* C11: in the login route the limiter is consulted for login:<clientIP> before the body
\* is read and the credentials are verified. A request the limiter rejects is answered
\* 429 with Retry-After and goes no further, so of the requests counted in one window of
\* a key at most 5 reach verifyCredentials.
C11_LimiterBeforeVerification ==
    /\ [](\A w \in DOMAIN verifs : verifs[w] <= 5)
    /\ [][(last'.called /\ ~last'.res.allowed) =>
              /\ inflight' = inflight
              /\ verifs' = verifs
              /\ Len(loginResp') = 1
              /\ loginResp'[1].status = 429
              /\ loginResp'[1].retryAfterHeader = <<last'.res.retryAfter>>]_vars

\* five requests counted in one window have reached verifyCredentials and the sixth has
\* just been answered 429
C11_Witness ==
    /\ last.called
    /\ ~last.res.allowed
    /\ Verifs(<<last.key, last.res.resetTime>>) = 5
    /\ Len(loginResp) = 1
    /\ loginResp[1].status = 429

\* C20: however the login requests of a key interleave at their awaits, no increment is
\* lost: after n limiter calls for the key within one live window the entry's count is n
\* and min(n, 5) of those calls were admitted.
C20_NoLostIncrement ==
    \A k \in LoginKeys :
        Live(store, k, now) =>
            /\ store[k].count = calls[k]
            /\ admits[k] = IF calls[k] <= 5 THEN calls[k] ELSE 5

\* the sixth call of a window has just been counted and rejected while two earlier
\* requests of the key are suspended at different awaits
C20_Witness ==
    /\ last.called
    /\ ~last.res.allowed
    /\ store[last.key].count = 6
    /\ admits[last.key] = 5
    /\ \E r1, r2 \in inflight :
           /\ r1.key = last.key
           /\ r2.key = last.key
           /\ r1.pc = "json"
           /\ r2.pc \in {"verify", "delay", "session"}

-----------------------------------------------------------------------------
(* Further claims about the rate limiter, checked under Spec               *)

\* C21: every entry of the store has count >= 1 and resetTime = firstRequest + windowMs
\* of the profile whose call created it; while an entry exists its resetTime and
\* firstRequest never change and its count never falls, so a rejected call raises the
\* count and leaves the window as it was. An entry is replaced only by a call for its
\* key made after its resetTime.
C21_EntryShape ==
    /\ [](\A k \in DOMAIN store :
             /\ store[k].count >= 1
             /\ \E cfg \in Configs :
                    store[k].resetTime = store[k].firstRequest + cfg.windowMs)
    /\ [][\A k \in DOMAIN store' :
             IF k \in DOMAIN store /\ ~(last'.called /\ last'.key = k /\ store[k].resetTime < now)
             THEN /\ store'[k].resetTime = store[k].resetTime
                  /\ store'[k].firstRequest = store[k].firstRequest
                  /\ store'[k].count >= store[k].count
                  /\ (last'.called /\ last'.key = k) => store'[k].count = store[k].count + 1
             ELSE /\ last'.called
                  /\ last'.key = k
                  /\ store'[k].count = 1
                  /\ store'[k].firstRequest = now
                  /\ store'[k].resetTime = now + last'.cfg.windowMs]_vars

\* a call of a limiter with another windowMs than the one that made the entry has just
\* been rejected, later than the entry's first request: the count has gone up and the
\* window is the one the creating profile set
C21_Witness ==
    /\ last.called
    /\ ~last.res.allowed
    /\ Len(last.before) = 1
    /\ now > last.before[1].firstRequest
    /\ now <= last.before[1].resetTime
    /\ store[last.key].count = last.before[1].count + 1
    /\ store[last.key].resetTime = last.before[1].resetTime
    /\ store[last.key].resetTime # store[last.key].firstRequest + last.cfg.windowMs

-----------------------------------------------------------------------------
(* Further claims about the sessions                                       *)

\* the token createSession returned has been verified
Verified == fn = "createSession" /\ Len(ret) = 2

\* createSession read its clocks within one second, and verifySession read one clock
\* value
OneClockValue ==
    /\ Epoch(args.dateNow) = Epoch(args.expNow)
    /\ args.verifyJose = args.verifyDate

\* C23 as stated, checked under SpecPure: for every token createSession issues and
\* every clock value, whenever the embedded expiresAt is earlier than now the JWT exp
\* check has rejected the token, so the explicit check is never the only one rejecting.
C23_ExplicitCheckRedundant ==
    (Verified /\ ret[2].explicit = "expired") => ret[2].jwt = "JWTExpired"

\* C23 amended, checked under SpecPure: when createSession's clock reads fall within
\* one second and verifySession reads one clock value, an embedded expiresAt earlier
\* than now means the JWT exp check has rejected the token; and whenever the explicit
\* check is the only one rejecting, either createSession's reads straddled a second
\* boundary or the clock passed the exp second between verifySession's two reads.
C23_RedundantAtOneClockValue ==
    Verified =>
        /\ (OneClockValue /\ ret[2].explicit = "expired") => ret[2].jwt = "JWTExpired"
        /\ (ret[2].explicit = "expired" /\ ret[2].jwt = "ok") =>
               \/ Epoch(args.dateNow) < Epoch(args.expNow)
               \/ ~jwtVerify(ret[1], JWT_SECRET, args.verifyDate).ok

\* a token issued within one second is verified at one clock value later than its
\* expiresAt, and the JWT exp check rejects it
C23_Witness ==
    /\ Verified
    /\ OneClockValue
    /\ args.dateNow % 1000 # 0
    /\ ret[2].explicit = "expired"
    /\ ret[2].jwt = "JWTExpired"
    /\ ret[2].session = <<>>

\* C24: the logout endpoint is behind the middleware's session check. A POST to
\* /api/auth/logout that carries no admin-session cookie, or a token that fails
\* verification, is answered 401 by the middleware; the logout handler does not run, so
\* nothing deletes the cookie the client holds.
C24_LogoutRequiresSession ==
    \A i \in 1..Len(resp) :
        (IsLogout(resp[i].path, resp[i].method) /\ ~Authenticated(resp[i].sent, now)) =>
            /\ resp[i].r.kind = "json"
            /\ resp[i].r.status = 401
            /\ ~resp[i].handler
            /\ ~resp[i].r.deleteCookie
            /\ cookie = resp[i].sent

\* a POST to /api/auth/logout carrying an issued token past its expiry has been answered
\* 401 and the client still holds the cookie
C24_Witness ==
    \E i \in issued :
        /\ Len(resp) = 1
        /\ IsLogout(resp[1].path, resp[1].method)
        /\ resp[1].sent = <<i.tok>>
        /\ now >= i.at + 2 * HourMs
        /\ resp[1].r.status = 401
        /\ ~resp[1].handler
        /\ cookie = <<i.tok>>

-----------------------------------------------------------------------------
(* Claims about teardown, cleanup and the frame of a call, checked under Spec *)

\* C25: when cleanupRateLimiter (store.destroy) runs, the store is emptied and the
\* cleanup timer is cancelled for good. Limiter calls made afterwards still create and
\* count entries in the same store, and no cleanup pass runs again: an entry leaves the
\* store only by a call for its own key replacing it or by another teardown, so the
\* entry of a key that has gone idle stays, however long its window has elapsed.
C25_NoSweepAfterTeardown ==
    /\ [][(timerOn /\ ~timerOn') => store' = MapDelete(store, DOMAIN store)]_vars
    /\ [][~timerOn =>
            /\ ~timerOn'
            /\ \/ store' = MapDelete(store, DOMAIN store) /\ ~last'.called
               \/ \A k \in DOMAIN store :
                      /\ k \in DOMAIN store'
                      /\ ~(last'.called /\ last'.key = k) => store'[k] = store[k]]_vars
    /\ [](~timerOn /\ last.called =>
            /\ last.key \in DOMAIN store
            /\ store[last.key] = last.after[1]
            /\ store[last.key].count =
                   IF Len(last.before) = 1 /\ now <= last.before[1].resetTime
                   THEN last.before[1].count + 1 ELSE 1)

\* after teardown a call has made an entry for one key and counted a second call for
\* another, and the first entry is still in the store with its window long elapsed
C25_Witness ==
    /\ ~timerOn
    /\ last.called
    /\ store[last.key].count = 2
    /\ \E k \in DOMAIN store \ {last.key} : store[k].resetTime + 1000 <= now

\* the entries of m that increment() at time t would count into: those it does not
\* treat as absent
Counted(m, t) == MapDelete(m, {k \in DOMAIN m : IsFresh(m, k, t)})

\* C26: cleanup passes cannot be observed through the limiters. A pass removes only
\* entries that increment() would treat as absent, so it leaves the counted entries as
\* they are; every call gives the same result (allowed, remaining, resetTime) and leaves
\* the same counted entries whether or not the elapsed entries are still in the store;
\* and an entry that is elapsed stays elapsed when the clock advances. Hence a run with
\* cleanup passes interleaved and the run without them give the same results call by
\* call.
C26_CleanupTransparent ==
    /\ [][(~last'.called /\ now' = now /\ timerOn') =>
              Counted(store', now) = Counted(store, now)]_vars
    /\ [](\A k \in Keys, cfg \in Configs :
              LET swept == MapDelete(store, ExpiredKeys(store, now))
                  kept  == IncrementEntry(store, k, cfg.windowMs, now)
                  gone  == IncrementEntry(swept, k, cfg.windowMs, now)
              IN  /\ LimiterResult(cfg, kept, now) = LimiterResult(cfg, gone, now)
                  /\ Counted(Increment(store, k, cfg.windowMs, now), now)
                         = Counted(Increment(swept, k, cfg.windowMs, now), now))
    /\ [](\A d \in StepMs :
              Counted(MapDelete(store, ExpiredKeys(store, now)), now + d)
                  = Counted(store, now + d))

\* with the timer armed since the start, a cleanup pass has removed the elapsed entry of
\* a key that had been called and has left the entry of another key, whose window ends
\* at this very instant
C26_Witness ==
    /\ timerOn
    /\ ~last.called
    /\ \E k \in Keys :
           /\ calls[k] > 0
           /\ k \notin DOMAIN store
           /\ \E j \in DOMAIN store : store[j].resetTime = now

\* C27: a limiter call for key k changes at most the store entry of k. The entry of
\* every other key, with its count and resetTime, is the same after the call as before,
\* and no entry of another key appears or goes; so the result of the next call for
\* another key, for every profile, is what it was before the call: the calls of one
\* client never use up or reject the quota of another.
C27_CallFrame ==
    [][last'.called =>
          /\ DOMAIN store' = DOMAIN store \cup {last'.key}
          /\ \A j \in DOMAIN store \ {last'.key} : store'[j] = store[j]
          /\ \A j \in Keys \ {last'.key}, cfg \in Configs :
                 LimiterResult(cfg, IncrementEntry(store', j, cfg.windowMs, now'), now')
                     = LimiterResult(cfg, IncrementEntry(store, j, cfg.windowMs, now), now)]_vars

\* a call has been rejected for one key while the entry of another key, counted once,
\* is live in the store
C27_Witness ==
    /\ last.called
    /\ ~last.res.allowed
    /\ store[last.key].count > last.cfg.maxRequests
    /\ \E j \in DOMAIN store \ {last.key} :
           /\ store[j].count = 1
           /\ now <= store[j].resetTime
           /\ calls[j] = 1

\* C28, checked under SpecSession: following the middleware's redirects always ends. For
\* every cookie the client holds, and with the clock free to advance between the hops, a
\* client that follows each redirect and applies each cookie deletion gets a response
\* that is not a redirect after at most two redirects. A second redirect is given only
\* by /admin, to /admin/login and with the cookie deleted, when the token that
\* /admin/login had accepted has expired before the next hop.
C28_RedirectsTerminate ==
    \A i \in 1..Len(resp) :
        /\ resp[i].redirects <= 2
        /\ resp[i].r.kind = "redirect" =>
               /\ resp[i].redirects <= 1
               /\ resp[i].redirects = 1 =>
                      /\ resp[i].path = <<"/", "admin">>
                      /\ resp[i].r.location = <<"/", "admin", "/", "login">>
                      /\ resp[i].r.deleteCookie
                      /\ cookie = <<>>
                      /\ Len(resp[i].sent) = 1
                      /\ resp[i].sent[1] \in IssuedTokens
                      /\ Epoch(now) >= resp[i].sent[1].payload.exp

\* the client was redirected from /admin/login to /admin, then back with its cookie
\* deleted, and /admin/login has now been served to it without a cookie
C28_Witness ==
    /\ Len(resp) = 1
    /\ resp[1].redirects = 2
    /\ resp[1].path = <<"/", "admin", "/", "login">>
    /\ resp[1].r.kind = "next"
    /\ resp[1].sent = <<>>
    /\ cookie = <<>>

\* C29, checked under SpecLogin: every login request that passes the limiter has used
\* one unit of its key's quota, and no outcome gives it back. The step that answers a
\* request 200, 400, 401 or 500 leaves the store as it is (a successful login does not
\* reset the counter); every limiter call counts one more in the key's live window; and
\* a call is rejected with 429 exactly when more than 5 calls have been counted in the
\* window, so after 5 requests of any outcome the 6th is rejected.
C29_QuotaSpentWhateverOutcome ==
    /\ [][(Len(loginResp') = 1 /\ loginResp'[1].status # 429) =>
              /\ ~last'.called
              /\ store' = store
              /\ loginResp'[1].status \in {200, 400, 401, 500}]_vars
    /\ [][last'.called =>
              /\ store'[last'.key].count =
                     IF Live(store, last'.key, now) THEN store[last'.key].count + 1 ELSE 1
              /\ last'.res.allowed <=> store'[last'.key].count <= 5
              /\ ~last'.res.allowed <=>
                     (Len(loginResp') = 1 /\ loginResp'[1].status = 429)]_vars

\* a login has just succeeded in a window in which six requests have been counted: the
\* entry still holds all six
C29_Witness ==
    /\ Len(loginResp) = 1
    /\ loginResp[1].status = 200
    /\ Len(loginResp[1].cookie) = 1
    /\ \E k \in LoginKeys :
           /\ Live(store, k, now)
           /\ store[k].count = 6
           /\ calls[k] = 6

====
